---- MODULE Spec2Model ----
(***************************************************************************)
(* A model of the regex-map-json transformation (src/src/lib.rs): the JSON *)
(* pointer read, the regex capture / replace evaluation, the deep merge,   *)
(* the recursive insert-or-merge-at-path write and the per-record loop.    *)
(*                                                                         *)
(* Text (paths, keys, string values) is a sequence of one-character        *)
(* strings, so that split('/'), contains("/"), join("/") and the pointer's *)
(* "~1" / "~0" unescaping are computed character by character.             *)
(* A JSON value is a tagged record:                                        *)
(*   [t |-> "null"], [t |-> "num", n |-> 0..9], [t |-> "str", s |-> text], *)
(*   [t |-> "arr", a |-> sequence of values],                              *)
(*   [t |-> "obj", m |-> function from keys (text) to values].             *)
(***************************************************************************)
EXTENDS Integers, Sequences, FiniteSets, TLC

VARIABLES
    mode,        \* which entry point this behaviour exercises
    pc,          \* position inside that entry point
    data,        \* the JSON document before anything ran (the record as parsed)
    json,        \* the document being mutated
    json1,       \* the document after the first write (write machines)
    path0,       \* the path given to add_json_key_value by the caller
    value0,      \* the value given to add_json_key_value by the caller
    key_path,    \* add_json_key_value's current argument key_path
    new_value,   \* add_json_key_value's current argument new_value
    caller_path, \* key_path of the recursive call that made the current call
    depth,       \* number of recursive calls made so far
    merges,      \* number of merge_json calls made by the write so far
    merged_at,   \* where the write merged: <<"found", path>>, <<"top">>, <<>>
    ops,         \* the configured operations (apply_regex_ops_to_json_record)
    opi,         \* number of operations already processed
    json_prev,   \* the document before the last processed operation
    value,       \* the text the last processed operation read
    result,      \* the text the last processed operation's regex produced
    wrote,       \* whether the last processed operation called the write
    written,     \* the value the last processed operation handed to the write
    log          \* per processed operation, whether it called the write

vars == <<mode, pc, data, json, json1, path0, value0, key_path, new_value,
          caller_path, depth, merges, merged_at, ops, opi, json_prev, value,
          result, wrote, written, log>>

---------------------------------------------------------------------------
(* JSON values *)

Null == [t |-> "null"]
Num(n) == [t |-> "num", n |-> n]
Str(s) == [t |-> "str", s |-> s]
Arr(a) == [t |-> "arr", a |-> a]
Obj(m) == [t |-> "obj", m |-> m]

EmptyMap == [k \in {} |-> Null]
Map1(k, v) == [x \in {k} |-> v]
Map2(k1, v1, k2, v2) == [x \in {k1, k2} |-> IF x = k1 THEN v1 ELSE v2]

IsObj(v) == v.t = "obj"
IsArr(v) == v.t = "arr"
IsStr(v) == v.t = "str"
IsScalar(v) == v.t \in {"null", "num", "str"}

---------------------------------------------------------------------------
(* Text helpers: str::contains, str::split, [..].join, str::replace *)

\* key_path.contains("/")
Contains(s, c) == c \in {s[i] : i \in 1..Len(s)}

FirstIndex(s, c) == CHOOSE i \in 1..Len(s) : s[i] = c /\ \A j \in 1..(i-1) : s[j] # c

\* s.split('/').collect(): always at least one piece; "" splits to [""]
RECURSIVE Split(_, _)
Split(s, c) ==
    IF ~Contains(s, c) THEN <<s>>
    ELSE LET i == FirstIndex(s, c)
         IN <<SubSeq(s, 1, i - 1)>> \o Split(SubSeq(s, i + 1, Len(s)), c)

\* pieces.join("/")
RECURSIVE Join(_, _)
Join(pieces, c) ==
    IF Len(pieces) = 0 THEN <<>>
    ELSE IF Len(pieces) = 1 THEN pieces[1]
    ELSE pieces[1] \o <<c>> \o Join(Tail(pieces), c)

\* s.replace("~" + c2, r): left to right, non-overlapping
RECURSIVE ReplaceTilde(_, _, _)
ReplaceTilde(s, c2, r) ==
    IF Len(s) = 0 THEN <<>>
    ELSE IF Len(s) >= 2 /\ s[1] = "~" /\ s[2] = c2
         THEN <<r>> \o ReplaceTilde(SubSeq(s, 3, Len(s)), c2, r)
         ELSE <<s[1]>> \o ReplaceTilde(Tail(s), c2, r)

\* serde_json::Value::pointer: x.replace("~1", "/").replace("~0", "~")
Unescape(tok) == ReplaceTilde(ReplaceTilde(tok, "1", "/"), "0", "~")

Digits == <<"0", "1", "2", "3", "4", "5", "6", "7", "8", "9">>
IsDigit(c) == \E d \in 1..Len(Digits) : Digits[d] = c
DigitVal(c) == (CHOOSE d \in 1..Len(Digits) : Digits[d] = c) - 1

RECURSIVE ParseNat(_, _)
ParseNat(s, acc) ==
    IF Len(s) = 0 THEN acc ELSE ParseNat(Tail(s), 10 * acc + DigitVal(s[1]))

\* serde_json's parse_index: None (-1 here) for "+..", for a leading zero
\* followed by more, and for anything usize::from_str rejects
parse_index(tok) ==
    IF Len(tok) = 0 THEN -1
    ELSE IF tok[1] = "+" \/ (tok[1] = "0" /\ Len(tok) # 1) THEN -1
    ELSE IF \A i \in 1..Len(tok) : IsDigit(tok[i]) THEN ParseNat(tok, 0)
    ELSE -1

---------------------------------------------------------------------------
(* Value::pointer / Value::pointer_mut *)

NotFound == [ok |-> FALSE, steps |-> <<>>]

\* try_fold over the tokens: an object is indexed by key, an array by a
\* parsed index, anything else fails.  The steps taken are returned so that
\* the location can be mutated in place (pointer_mut).
RECURSIVE Walk(_, _, _)
Walk(target, tokens, steps) ==
    IF Len(tokens) = 0 THEN [ok |-> TRUE, steps |-> steps]
    ELSE LET token == tokens[1] IN
         IF IsObj(target) THEN
             IF token \in DOMAIN target.m
             THEN Walk(target.m[token], Tail(tokens), Append(steps, token))
             ELSE NotFound
         ELSE IF IsArr(target) THEN
             LET x == parse_index(token) IN
             IF x >= 0 /\ x < Len(target.a)
             THEN Walk(target.a[x + 1], Tail(tokens), Append(steps, x + 1))
             ELSE NotFound
         ELSE NotFound

UnescapeAll(pieces) == [i \in 1..Len(pieces) |-> Unescape(pieces[i])]

Pointer(doc, pointer) ==
    IF Len(pointer) = 0 THEN [ok |-> TRUE, steps |-> <<>>]
    ELSE IF pointer[1] # "/" THEN NotFound
    ELSE Walk(doc, UnescapeAll(Tail(Split(pointer, "/"))), <<>>)

\* the value a resolved location holds
RECURSIVE GetAt(_, _)
GetAt(doc, steps) ==
    IF Len(steps) = 0 THEN doc
    ELSE IF IsObj(doc) THEN GetAt(doc.m[steps[1]], Tail(steps))
    ELSE GetAt(doc.a[steps[1]], Tail(steps))

\* assignment through the &mut reference pointer_mut returned
RECURSIVE PutAt(_, _, _)
PutAt(doc, steps, v) ==
    IF Len(steps) = 0 THEN v
    ELSE IF IsObj(doc)
         THEN Obj([doc.m EXCEPT ![steps[1]] = PutAt(@, Tail(steps), v)])
         ELSE Arr([doc.a EXCEPT ![steps[1]] = PutAt(@, Tail(steps), v)])

---------------------------------------------------------------------------
(* Value::to_string: compact JSON text, object keys in the map's order     *)
(* (serde_json's default map is a BTreeMap: keys sorted by their bytes)    *)

CharCode(c) ==
    CASE c = "\"" -> 34 [] c = "+" -> 43 [] c = "/" -> 47
      [] c = "\\" -> 92 [] c = "a" -> 97 [] c = "b" -> 98 [] c = "~" -> 126
      [] IsDigit(c) -> 48 + DigitVal(c)
      [] OTHER -> 127

RECURSIVE TextLess(_, _)
TextLess(x, y) ==
    IF Len(y) = 0 THEN FALSE
    ELSE IF Len(x) = 0 THEN TRUE
    ELSE IF x[1] # y[1] THEN CharCode(x[1]) < CharCode(y[1])
    ELSE TextLess(Tail(x), Tail(y))

MinKey(S) == CHOOSE k \in S : \A o \in S \ {k} : TextLess(k, o)

\* the keys of a map in iteration order
RECURSIVE KeySeq(_)
KeySeq(S) == IF S = {} THEN <<>> ELSE <<MinKey(S)>> \o KeySeq(S \ {MinKey(S)})

RECURSIVE EscapeText(_)
EscapeText(s) ==
    IF Len(s) = 0 THEN <<>>
    ELSE (IF s[1] \in {"\"", "\\"} THEN <<"\\", s[1]>> ELSE <<s[1]>>)
         \o EscapeText(Tail(s))

Quoted(s) == <<"\"">> \o EscapeText(s) \o <<"\"">>

RECURSIVE to_string(_)
RECURSIVE SerItems(_)
RECURSIVE SerEntries(_, _)
SerItems(a) ==
    IF Len(a) = 0 THEN <<>>
    ELSE to_string(a[1]) \o (IF Len(a) > 1 THEN <<",">> ELSE <<>>) \o SerItems(Tail(a))

SerEntries(m, ks) ==
    IF Len(ks) = 0 THEN <<>>
    ELSE Quoted(ks[1]) \o <<":">> \o to_string(m[ks[1]])
         \o (IF Len(ks) > 1 THEN <<",">> ELSE <<>>) \o SerEntries(m, Tail(ks))

to_string(v) ==
    CASE v.t = "null" -> <<"n", "u", "l", "l">>
      [] v.t = "num" -> <<Digits[v.n + 1]>>
      [] v.t = "str" -> Quoted(v.s)
      [] v.t = "arr" -> <<"[">> \o SerItems(v.a) \o <<"]">>
      [] v.t = "obj" -> <<"{">> \o SerEntries(v.m, KeySeq(DOMAIN v.m)) \o <<"}">>

\* extract_json_field: the record text is parsed again on every call, so
\* the document read is the record, given here already parsed
extract_json_field(record, lookup) ==
    LET found == Pointer(record, lookup) IN
    IF found.ok
    THEN LET val == GetAt(record, found.steps) IN
         IF IsStr(val) THEN val.s ELSE to_string(val)
    ELSE <<>>

---------------------------------------------------------------------------
(* Regex: the patterns  c ,  c(.)  and  c(.)?  for a literal character c,  *)
(* as [lit |-> c, grp |-> "none" | "dot" | "opt"]; leftmost match, greedy  *)

Re(c, g) == [lit |-> c, grp |-> g]

\* length of the match starting at i, 0 when the pattern does not match there
MatchLen(text, re, i) ==
    IF i > Len(text) \/ text[i] # re.lit THEN 0
    ELSE CASE re.grp = "none" -> 1
           [] re.grp = "dot" -> IF i < Len(text) THEN 2 ELSE 0
           [] re.grp = "opt" -> IF i < Len(text) THEN 2 ELSE 1

\* start of the leftmost match at or after from, 0 when there is none
FindFrom(text, re, from) ==
    IF \E i \in from..Len(text) : MatchLen(text, re, i) > 0
    THEN CHOOSE i \in from..Len(text) :
            /\ MatchLen(text, re, i) > 0
            /\ \A j \in from..(i - 1) : MatchLen(text, re, j) = 0
    ELSE 0

IsMatch(text, re) == FindFrom(text, re, 1) > 0

\* regex.captures(text): caps.get(1).map_or("", ..), "" when no match
process_regex_capture(text, re) ==
    LET i == FindFrom(text, re, 1) IN
    IF i = 0 THEN <<>>
    ELSE IF re.grp = "none" THEN <<>>
    ELSE IF MatchLen(text, re, i) = 2 THEN <<text[i + 1]>>
    ELSE <<>>

\* regex.replace_all(text, with) for a template without '$'
RECURSIVE ReplaceFrom(_, _, _, _)
ReplaceFrom(text, re, with, from) ==
    LET i == FindFrom(text, re, from) IN
    IF i = 0 THEN SubSeq(text, from, Len(text))
    ELSE SubSeq(text, from, i - 1) \o with
         \o ReplaceFrom(text, re, with, i + MatchLen(text, re, i))

process_regex_replace(text, re, with) == ReplaceFrom(text, re, with, 1)

\* enum Operation
Capture(re, target, output) ==
    [kind |-> "capture", regex |-> re, target |-> target, output |-> output]
Replace(re, target, with) ==
    [kind |-> "replace", regex |-> re, target |-> target, with |-> with]

get_target(op) == op.target
get_output(op) == IF op.kind = "capture" THEN op.output ELSE op.target
run_regex(op, text) ==
    IF op.kind = "capture" THEN process_regex_capture(text, op.regex)
    ELSE process_regex_replace(text, op.regex, op.with)

---------------------------------------------------------------------------
(* merge_json *)

RECURSIVE merge_json(_, _)
RECURSIVE MergeEntries(_, _, _)

\* a.entry(k).or_insert(Value::Null)
EntryOrNull(m, k) == IF k \in DOMAIN m THEN m[k] ELSE Null

\* mutant: a shallow merge, each key of b overwrites the entry of a
MergeEntriesShallow(am, bm, ks) ==
    [x \in DOMAIN am \cup DOMAIN bm |-> IF x \in DOMAIN bm THEN bm[x] ELSE am[x]]

\* for (k, v) in b { merge_json(a.entry(k.clone()).or_insert(Null), v) }
MergeEntries(am, bm, ks) ==
    IF Len(ks) = 0 THEN am
    ELSE LET k == ks[1]
             merged == merge_json(EntryOrNull(am, k), bm[k])
         IN MergeEntries([x \in DOMAIN am \cup {k} |-> IF x = k THEN merged ELSE am[x]],
                         bm, Tail(ks))

\* mutant: b always replaces a, objects included
merge_json_overwrite(a, b) == b

\* mutant: a merge into an array appends instead of replacing
merge_json_append(a, b) ==
    IF IsObj(a) /\ IsObj(b)
    THEN Obj(MergeEntries(a.m, b.m, KeySeq(DOMAIN b.m)))
    ELSE IF IsArr(a) THEN Arr(Append(a.a, b))
    ELSE b

merge_json(a, b) ==
    IF IsObj(a) /\ IsObj(b)
    THEN Obj(MergeEntries(a.m, b.m, KeySeq(DOMAIN b.m)))
    ELSE b

---------------------------------------------------------------------------
(* add_json_key_value / add_json_key_value_recursive *)

\* mutant: the guard of add_json_key_value lets every path through
PathOkAlways(kp) == TRUE

\* the guard of add_json_key_value
PathOk(kp) == Contains(kp, "/")

\* key_path.split('/').skip(1).collect()
PathArray(kp) == Tail(Split(kp, "/"))

\* mutant: the key is read with last() and never popped
PoppedNothing(pa) == pa

\* path_array after path_array.pop()
Popped(pa) == SubSeq(pa, 1, Len(pa) - 1)

\* v_map.insert(some_key, new_value); Value::Object(v_map)
RVal(pa, nv) == Obj(Map1(pa[Len(pa)], nv))

\* mutant: the parent path is joined without its leading '/'
NewKeyPathNoSlash(pa) == Join(pa, "/")

\* format!("/{}", path_array.join("/"))
NewKeyPath(pa) == <<"/">> \o Join(pa, "/")

\* merge_json(some_found_json.unwrap(), &new_value)
MergeFound(j, steps, nv) == PutAt(j, steps, merge_json(GetAt(j, steps), nv))

\* the merges with the top of the tree: with no key (an empty path_array,
\* which a key_path holding '/' never gives) the bare value, else the
\* value under its key
MergeTop(j, kp, nv) ==
    LET pa == PathArray(kp) IN
    IF Len(pa) = 0 THEN merge_json(j, nv) ELSE merge_json(j, RVal(pa, nv))

RECURSIVE add_json_key_value(_, _, _)

add_json_key_value_recursive(j, kp, nv) ==
    LET found == Pointer(j, kp)
        pa == PathArray(kp)
    IN IF found.ok THEN MergeFound(j, found.steps, nv)
       ELSE IF Len(pa) = 0 \/ Len(Popped(pa)) = 0 THEN MergeTop(j, kp, nv)
       ELSE add_json_key_value(j, NewKeyPath(Popped(pa)), RVal(pa, nv))

add_json_key_value(j, kp, nv) ==
    IF PathOk(kp) THEN add_json_key_value_recursive(j, kp, nv) ELSE j

---------------------------------------------------------------------------
(* Inputs *)

MaxSegs == 3    \* '/'-separated segments in a path given to the write
MaxOps == 2     \* configured operations per record

kE == <<>>
kA == <<"a">>
kB == <<"b">>
k0 == <<"0">>
k1 == <<"1">>
kSlash == <<"/">>
kTilde1 == <<"~", "1">>

\* what may follow a '/' in a path, and what may come before the first one
Segs == {kE, kA, kB, k0, k1, kTilde1}
Prefixes == {kE, kA, k0}

RECURSIVE Tails(_)
Tails(n) ==
    IF n = 0 THEN {<<>>}
    ELSE LET shorter == Tails(n - 1)
         IN shorter \cup {<<"/">> \o sg \o t : sg \in Segs, t \in {x \in shorter : Len(Split(x, "/")) = n}}

\* every path: a prefix, then at most MaxSegs times a '/' and a segment
Paths == {pre \o t : pre \in Prefixes, t \in Tails(MaxSegs)}

Docs ==
    { Obj(EmptyMap),
      Str(<<>>),
      Obj(Map1(kA, Obj(Map2(kA, Num(1), kB, Num(2))))),
      Obj(Map1(kA, Obj(Map1(kA, Obj(Map1(kB, Num(2))))))),
      Obj(Map1(kA, Arr(<<Obj(Map1(kA, Num(1))), Obj(Map1(kB, Num(2)))>>))),
      Obj(Map1(kA, Arr(<<Num(1), Str(<<"a">>)>>))),
      Arr(<<Num(1)>>),
      Arr(<<>>),
      Obj(Map1(kA, Arr(<<Arr(<<Num(1)>>), Obj(EmptyMap)>>))),
      Obj(Map2(kSlash, Num(1), kB, Num(2))),
      Obj(Map1(kTilde1, Num(1))),
      Obj(Map1(kE, Obj(Map1(kA, Num(1))))),
      Obj(Map2(k0, Num(1), kA, Str(<<"a", "b">>))),
      Obj(Map2(kA, Str(<<"a", "b">>), kB, Num(1))) }

Values == {Str(<<"b">>), Num(3), Obj(Map1(kB, Num(2)))}

\* records given to the transform
Records ==
    { Obj(EmptyMap),
      Obj(Map2(kA, Str(<<"a", "b">>), kB, Num(1))),
      Obj(Map2(kA, Str(<<"b", "a">>), kB, Str(<<>>))),
      Obj(Map1(kA, Obj(Map1(kB, Str(<<"a", "b">>))))),
      Obj(Map1(kB, Arr(<<Str(<<"a", "b">>)>>))) }

pA == <<"/", "a">>
pB == <<"/", "b">>
pAB == <<"/", "a", "/", "b">>
pBA == <<"/", "b", "/", "a">>
pB0 == <<"/", "b", "/", "0">>

OpSet ==
    { Capture(Re("a", "dot"), pA, pB),
      Capture(Re("b", "dot"), pA, pBA),
      Capture(Re("a", "opt"), pA, kB),
      Capture(Re("b", "none"), pA, pB),
      Capture(Re("a", "dot"), pB, pA),
      Capture(Re("b", "opt"), pAB, pA),
      Capture(Re("a", "dot"), pB0, pAB),
      Replace(Re("a", "none"), pA, <<"b">>),
      Replace(Re("b", "none"), pA, <<>>),
      Replace(Re("a", "dot"), pB, <<"b", "a">>),
      Replace(Re("a", "opt"), pAB, <<"a">>),
      Replace(Re("b", "dot"), kA, <<"a">>) }

OpLists == UNION {[1..n -> OpSet] : n \in 0..MaxOps}

---------------------------------------------------------------------------
(* apply_regex_ops_to_json_record: one action per outcome of an iteration  *)

NoCall == <<>>

InitCommon ==
    /\ json1 = Null /\ path0 = <<>> /\ value0 = Null
    /\ key_path = <<>> /\ new_value = Null /\ caller_path = <<>>
    /\ depth = 0 /\ merges = 0 /\ merged_at = NoCall

Init ==
    /\ mode = "transform" /\ pc = "loop"
    /\ data \in Records /\ json = data
    /\ ops \in OpLists /\ opi = 0
    /\ json_prev = json /\ value = <<>> /\ result = <<>>
    /\ wrote = FALSE /\ written = Null /\ log = <<>>
    /\ InitCommon

WriteFrame ==
    UNCHANGED <<mode, data, json1, path0, value0, key_path, new_value,
                caller_path, depth, merges, merged_at, ops>>

\* the text an operation reads: extract_json_field(data, op.get_target())
SourceText(record, op) == extract_json_field(record, get_target(op))

\* if value.is_empty() { continue; }
SkipValue(v) == Len(v) = 0

\* mutant: the check of the regex result is missing
SkipResultNever(r) == FALSE

\* if result.is_empty() { continue; }
SkipResult(r) == Len(r) = 0

\* let value = extract_json_field(..)?; if value.is_empty() { continue; }
OpSkipSource ==
    /\ mode = "transform" /\ pc = "loop" /\ opi < Len(ops)
    /\ LET op == ops[opi + 1]
           v == SourceText(data, op)
       IN /\ SkipValue(v)
          /\ value' = v /\ result' = <<>>
    /\ wrote' = FALSE /\ written' = Null /\ log' = Append(log, FALSE)
    /\ json_prev' = json /\ json' = json
    /\ opi' = opi + 1 /\ pc' = "loop"
    /\ WriteFrame

\* let result = op.run_regex(&value)?; if result.is_empty() { continue; }
OpSkipResult ==
    /\ mode = "transform" /\ pc = "loop" /\ opi < Len(ops)
    /\ LET op == ops[opi + 1]
           v == SourceText(data, op)
           r == run_regex(op, v)
       IN /\ ~SkipValue(v) /\ SkipResult(r)
          /\ value' = v /\ result' = r
    /\ wrote' = FALSE /\ written' = Null /\ log' = Append(log, FALSE)
    /\ json_prev' = json /\ json' = json
    /\ opi' = opi + 1 /\ pc' = "loop"
    /\ WriteFrame

\* add_json_key_value(&mut json, op.get_output(), Value::from(result))
OpWrite ==
    /\ mode = "transform" /\ pc = "loop" /\ opi < Len(ops)
    /\ LET op == ops[opi + 1]
           v == SourceText(data, op)
           r == run_regex(op, v)
       IN /\ ~SkipValue(v) /\ ~SkipResult(r)
          /\ value' = v /\ result' = r
          /\ wrote' = TRUE /\ written' = Str(r) /\ log' = Append(log, TRUE)
          /\ json' = add_json_key_value(json, get_output(op), Str(r))
    /\ json_prev' = json
    /\ opi' = opi + 1 /\ pc' = "loop"
    /\ WriteFrame

\* Ok(json)
TransformReturn ==
    /\ mode = "transform" /\ pc = "loop" /\ opi = Len(ops)
    /\ pc' = "done"
    /\ UNCHANGED <<json, json_prev, opi, value, result, wrote, written, log>>
    /\ WriteFrame

Next == OpSkipSource \/ OpSkipResult \/ OpWrite \/ TransformReturn

Spec == Init /\ [][Next]_vars

---------------------------------------------------------------------------
(* add_json_key_value as one call: once, then the same call again *)

TransformIdle ==
    /\ ops = <<>> /\ opi = 0 /\ json_prev = Null /\ value = <<>>
    /\ result = <<>> /\ wrote = FALSE /\ written = Null /\ log = <<>>

InitWrite ==
    /\ mode = "write" /\ pc = "start"
    /\ data \in Docs /\ json = data /\ json1 = Null
    /\ path0 \in Paths /\ value0 \in Values
    /\ key_path = path0 /\ new_value = value0 /\ caller_path = <<>>
    /\ depth = 0 /\ merges = 0 /\ merged_at = NoCall
    /\ TransformIdle

TransformFrame ==
    UNCHANGED <<ops, opi, json_prev, value, result, wrote, written, log>>

WriteOnce ==
    /\ mode = "write" /\ pc = "start"
    /\ json' = add_json_key_value(json, path0, value0)
    /\ json1' = json'
    /\ pc' = "once"
    /\ UNCHANGED <<mode, data, path0, value0, key_path, new_value,
                   caller_path, depth, merges, merged_at>>
    /\ TransformFrame

WriteAgain ==
    /\ mode = "write" /\ pc = "once"
    /\ json' = add_json_key_value(json, path0, value0)
    /\ pc' = "twice"
    /\ UNCHANGED <<mode, data, json1, path0, value0, key_path, new_value,
                   caller_path, depth, merges, merged_at>>
    /\ TransformFrame

NextWrite == WriteOnce \/ WriteAgain

SpecWrite == InitWrite /\ [][NextWrite]_vars

---------------------------------------------------------------------------
(* add_json_key_value call by call: the mutual recursion, one action per   *)
(* way a call can go                                                       *)

InitRec ==
    /\ mode = "rec" /\ pc = "call"
    /\ data \in Docs /\ json = data /\ json1 = Null
    /\ path0 \in Paths /\ value0 = Str(<<"b">>)
    /\ key_path = path0 /\ new_value = value0 /\ caller_path = <<>>
    /\ depth = 0 /\ merges = 0 /\ merged_at = NoCall
    /\ TransformIdle

RecFrame == UNCHANGED <<mode, data, json1, path0, value0>> /\ TransformFrame

\* the conditions under which each way is taken
Rejects == mode = "rec" /\ pc = "call" /\ ~PathOk(key_path)
Enters == mode = "rec" /\ pc = "call" /\ PathOk(key_path)
Finds == mode = "rec" /\ pc = "rec" /\ Pointer(json, key_path).ok
MergesTop ==
    /\ mode = "rec" /\ pc = "rec"
    /\ ~Pointer(json, key_path).ok
    /\ LET pa == PathArray(key_path) IN Len(pa) = 0 \/ Len(Popped(pa)) = 0
Recurses ==
    /\ mode = "rec" /\ pc = "rec"
    /\ ~Pointer(json, key_path).ok
    /\ LET pa == PathArray(key_path) IN Len(pa) > 0 /\ Len(Popped(pa)) > 0

\* add_json_key_value: key_path holds no '/', nothing is done
AddReject ==
    /\ Rejects
    /\ pc' = "ret"
    /\ UNCHANGED <<json, key_path, new_value, caller_path, depth, merges, merged_at>>
    /\ RecFrame

\* add_json_key_value: calls add_json_key_value_recursive
AddEnter ==
    /\ Enters
    /\ pc' = "rec"
    /\ UNCHANGED <<json, key_path, new_value, caller_path, depth, merges, merged_at>>
    /\ RecFrame

\* the path resolves: merge there and return
RecFound ==
    /\ Finds
    /\ json' = MergeFound(json, Pointer(json, key_path).steps, new_value)
    /\ merges' = merges + 1 /\ merged_at' = <<"found", key_path>>
    /\ pc' = "ret"
    /\ UNCHANGED <<key_path, new_value, caller_path, depth>>
    /\ RecFrame

\* no key, or no path element left after the key: merge with the top
RecTop ==
    /\ MergesTop
    /\ json' = MergeTop(json, key_path, new_value)
    /\ merges' = merges + 1 /\ merged_at' = <<"top">>
    /\ pc' = "ret"
    /\ UNCHANGED <<key_path, new_value, caller_path, depth>>
    /\ RecFrame

\* build the parent key path and call add_json_key_value again
RecParent ==
    /\ Recurses
    /\ key_path' = NewKeyPath(Popped(PathArray(key_path)))
    /\ new_value' = RVal(PathArray(key_path), new_value)
    /\ caller_path' = key_path
    /\ depth' = depth + 1
    /\ pc' = "call"
    /\ UNCHANGED <<json, merges, merged_at>>
    /\ RecFrame

NextRec == AddReject \/ AddEnter \/ RecFound \/ RecTop \/ RecParent

SpecRec == InitRec /\ [][NextRec]_vars

---------------------------------------------------------------------------
(* merge_json on its own: merge value0 into data *)

InitMerge ==
    /\ mode = "merge" /\ pc = "start"
    /\ data \in Docs \cup Values /\ json = data /\ json1 = Null
    /\ path0 = <<>> /\ value0 \in Docs \cup Values
    /\ key_path = <<>> /\ new_value = Null /\ caller_path = <<>>
    /\ depth = 0 /\ merges = 0 /\ merged_at = NoCall
    /\ TransformIdle

Merge ==
    /\ mode = "merge" /\ pc = "start"
    /\ json' = merge_json(json, value0)
    /\ merges' = merges + 1
    /\ pc' = "merged"
    /\ UNCHANGED <<mode, data, json1, path0, value0, key_path, new_value,
                   caller_path, depth, merged_at>>
    /\ TransformFrame

NextMerge == Merge

SpecMerge == InitMerge /\ [][NextMerge]_vars

---------------------------------------------------------------------------
(* Claims about apply_regex_ops_to_json_record (Spec) *)

Processed == mode = "transform" /\ opi > 0
LastOp == ops[opi]

\* an operation before the last processed one wrote at the path p
WrittenEarlier(p) ==
    \E i \in 1..(opi - 1) : log[i] /\ get_output(ops[i]) = p

\* C1: when an earlier operation wrote at the path a later operation reads,
\* the text the later operation reads is the value at that path in the
\* document as the earlier operations left it, not in the original record.
C1_ReadsCumulativeDocument ==
    (Processed /\ WrittenEarlier(get_target(LastOp)))
        => value = extract_json_field(json_prev, get_target(LastOp))

\* the group of a capture is empty on this text: no match, or group 1
\* did not take part
CaptureEmpty(op, text) ==
    op.kind = "capture" /\ (~IsMatch(text, op.regex) \/ op.regex.grp = "none"
        \/ MatchLen(text, op.regex, FindFrom(text, op.regex, 1)) < 2)

\* C2: an operation whose source text or regex result is empty performs no
\* write and leaves the document as it was; the write happens exactly when
\* both are non-empty, and the value written is a JSON string holding the
\* regex result.
C2_SkipOnEmpty ==
    Processed =>
        /\ result = (IF Len(value) = 0 THEN <<>> ELSE run_regex(LastOp, value))
        /\ (Len(value) = 0 \/ Len(result) = 0) => (~wrote /\ json = json_prev)
        /\ (Len(value) > 0 /\ CaptureEmpty(LastOp, value)) => (~wrote /\ json = json_prev)
        /\ wrote <=> (Len(value) > 0 /\ Len(result) > 0)
        /\ wrote => /\ written = Str(result)
                    /\ json = add_json_key_value(json_prev, get_output(LastOp), written)
        /\ log[opi] = wrote

\* a skipped operation followed by one that wrote a string into the document
C2_Witness ==
    /\ Processed /\ opi = 2 /\ ~log[1] /\ wrote
    /\ json # json_prev /\ Len(result) > 0
    /\ LET f == Pointer(json, get_output(LastOp))
       IN f.ok /\ GetAt(json, f.steps) = Str(result)

\* C8: a Replace operation whose pattern matches nowhere in its non-empty
\* source text leaves the document as it was.
C8_NoMatchReplaceKeepsDocument ==
    (Processed /\ LastOp.kind = "replace" /\ Len(value) > 0
        /\ ~IsMatch(value, LastOp.regex))
        => json = json_prev

---------------------------------------------------------------------------
(* Claims about add_json_key_value as one call (SpecWrite) *)

Written == mode = "write" /\ pc \in {"once", "twice"}
WrittenOnce == mode = "write" /\ pc = "once"

\* C3: a write whose path holds no '/' leaves the document, whatever its
\* root is, as it was.
C3_NoSlashIsNoop ==
    (Written /\ ~Contains(path0, "/")) => json = data

C3_Witness ==
    /\ WrittenOnce /\ path0 = kA /\ IsObj(data) /\ kA \in DOMAIN data.m
    /\ json = data

\* the text of p before its last '/', and the text after it
LastSlash(p) == CHOOSE i \in 1..Len(p) : p[i] = "/" /\ \A j \in (i + 1)..Len(p) : p[j] # "/"
ParentText(p) == SubSeq(p, 1, LastSlash(p) - 1)
LastSegment(p) == SubSeq(p, LastSlash(p) + 1, Len(p))

\* the parent of the path resolves in the document to an object
ParentIsObject(doc, p) ==
    /\ Contains(p, "/")
    /\ Pointer(doc, ParentText(p)).ok
    /\ IsObj(GetAt(doc, Pointer(doc, ParentText(p)).steps))

\* after the write the object at the parent holds every key it held, with
\* the same value, but for the keys in except, and nothing outside that
\* object changed
SiblingsKept(before, after, p, except) ==
    LET steps == Pointer(before, ParentText(p)).steps
        old == GetAt(before, steps)
    IN /\ Pointer(after, ParentText(p)).ok
       /\ Pointer(after, ParentText(p)).steps = steps
       /\ LET new == GetAt(after, steps)
          IN /\ IsObj(new)
             /\ \A k \in DOMAIN old.m \ except :
                    k \in DOMAIN new.m /\ new.m[k] = old.m[k]
             /\ after = PutAt(before, steps, new)

\* C4 as stated: every key of the parent object other than the last
\* segment of the path, as written in the path, is kept unchanged.
C4_SiblingsKeptLiteral ==
    (WrittenOnce /\ ParentIsObject(data, path0))
        => SiblingsKept(data, json, path0, {LastSegment(path0)})

\* the key the write lands on: the last segment as the pointer reads it
\* when the path resolves, its text as written when the path is created
LandingKey(doc, p) ==
    IF Pointer(doc, p).ok THEN Unescape(LastSegment(p)) ELSE LastSegment(p)

\* C4 (amended): when the parent of the path resolves to an object, every
\* key of that object other than the key the write lands on is kept with
\* its value, and nothing outside that object changes.
C4_SiblingsKept ==
    (WrittenOnce /\ ParentIsObject(data, path0))
        => SiblingsKept(data, json, path0, {LandingKey(data, path0)})

\* a new key written into a nested object that holds another key
C4_Witness ==
    /\ WrittenOnce /\ ParentIsObject(data, path0)
    /\ Len(ParentText(path0)) > 0
    /\ ~Pointer(data, path0).ok /\ Pointer(json, path0).ok
    /\ LET old == GetAt(data, Pointer(data, ParentText(path0)).steps)
       IN DOMAIN old.m \ {LandingKey(data, path0)} # {}

\* C5: after a string is written at a path that holds '/' and did not
\* resolve, the read of the same path returns that string.
C5_WriteThenRead ==
    (WrittenOnce /\ PathOk(path0) /\ ~Pointer(data, path0).ok /\ IsStr(value0))
        => extract_json_field(json, path0) = value0.s

\* C6: writing the same path and scalar value a second time leaves the
\* document as the first write left it.
C6_Idempotent ==
    (mode = "write" /\ pc = "twice" /\ IsScalar(value0)) => json = json1

\* a second write after a first one that replaced an array on the way
C6_Witness ==
    /\ mode = "write" /\ pc = "twice" /\ IsScalar(value0)
    /\ ~Pointer(data, path0).ok /\ json1 # data
    /\ IsObj(data) /\ IsObj(json1)
    /\ \E k \in DOMAIN data.m : IsArr(data.m[k]) /\ ~IsArr(json1.m[k])

\* the value under the segments, innermost last: {s1: {s2: .. v}}
RECURSIVE Wrap(_, _)
Wrap(segs, v) ==
    IF Len(segs) = 0 THEN v ELSE Obj(Map1(segs[1], Wrap(Tail(segs), v)))

Literals(p) == Tail(Split(p, "/"))
Tokens(p) == UnescapeAll(Literals(p))
ResolvesTo(doc, p, i) == Walk(doc, SubSeq(Tokens(p), 1, i), <<>>)
ValueAtPrefix(doc, p, i) == GetAt(doc, ResolvesTo(doc, p, i).steps)

\* the number of leading segments of p that resolve in doc
Deepest(doc, p) ==
    CHOOSE i \in 0..Len(Tokens(p)) :
        /\ ResolvesTo(doc, p, i).ok
        /\ \A j \in (i + 1)..Len(Tokens(p)) : ~ResolvesTo(doc, p, j).ok

\* the path does not resolve because the value it reaches is no object
BlockedByNonObject(doc, p) ==
    /\ Len(p) > 0 /\ p[1] = "/"
    /\ Deepest(doc, p) < Len(Tokens(p))
    /\ ~IsObj(ValueAtPrefix(doc, p, Deepest(doc, p)))

ObjectPrefixes(doc, p) ==
    {i \in 0..Deepest(doc, p) : IsObj(ValueAtPrefix(doc, p, i))}
NearestObject(doc, p) ==
    CHOOSE i \in ObjectPrefixes(doc, p) : \A j \in ObjectPrefixes(doc, p) : j <= i

\* the document with the value at the first i segments of p replaced by v
\* wrapped in the remaining segments
ReplacedAt(doc, p, i, v) ==
    PutAt(doc, ResolvesTo(doc, p, i).steps,
          Wrap(SubSeq(Literals(p), i + 1, Len(Literals(p))), v))

\* C9 as stated: the wrapped value is merged at the nearest ancestor that
\* is an object, and everything below that ancestor on the path is replaced.
C9_MergedAtNearestObject ==
    (WrittenOnce /\ BlockedByNonObject(data, path0) /\ ObjectPrefixes(data, path0) # {})
        => json = ReplacedAt(data, path0, NearestObject(data, path0) + 1, value0)

\* C9 (amended): the value, wrapped in the segments that do not resolve,
\* replaces the non-object value at the longest prefix of the path that
\* resolves; an array that the path indexes into is kept.
C9_ReplacedAtDeepestPrefix ==
    (WrittenOnce /\ BlockedByNonObject(data, path0))
        => json = ReplacedAt(data, path0, Deepest(data, path0), value0)

\* a path through an element of an array: the element is replaced, the
\* array is kept
C9_Witness ==
    /\ WrittenOnce /\ BlockedByNonObject(data, path0)
    /\ ObjectPrefixes(data, path0) # {}
    /\ NearestObject(data, path0) + 1 < Deepest(data, path0)
    /\ json # data

---------------------------------------------------------------------------
(* Claims about the recursion of add_json_key_value (SpecRec) *)

\* the paths the recursion can try for p, by number of segments kept
Candidate(p, i) ==
    IF i = Len(Literals(p)) THEN p
    ELSE <<"/">> \o Join(SubSeq(Literals(p), 1, i), "/")
Resolving(doc, p) ==
    {i \in 1..Len(Literals(p)) : Pointer(doc, Candidate(p, i)).ok}
LongestResolving(doc, p) ==
    CHOOSE i \in Resolving(doc, p) : \A j \in Resolving(doc, p) : j <= i

\* some way of the call can be taken: a step of NextRec is enabled
CanStep == Rejects \/ Enters \/ Finds \/ MergesTop \/ Recurses

\* C10: every recursive call gets a parent path with strictly fewer
\* segments that still holds '/', no call is stuck before it returns, and
\* a write whose path holds '/' returns after exactly one merge, made at
\* the longest prefix of the path that resolves or, when none does, at the
\* top of the document.
C10_Terminates ==
    mode = "rec" =>
        /\ depth > 0 =>
              /\ Len(PathArray(key_path)) < Len(PathArray(caller_path))
              /\ Contains(key_path, "/")
        /\ depth + Len(PathArray(key_path)) = Len(PathArray(path0))
        /\ pc # "ret" => (merges = 0 /\ CanStep)
        /\ pc = "ret" =>
              /\ merges = (IF Contains(path0, "/") THEN 1 ELSE 0)
              /\ merged_at =
                    (IF ~Contains(path0, "/") THEN NoCall
                     ELSE IF Resolving(data, path0) = {} THEN <<"top">>
                     ELSE <<"found", Candidate(path0, LongestResolving(data, path0))>>)
              /\ json = add_json_key_value(data, path0, value0)

\* a write that recursed twice before it merged at a prefix that resolves
C10_Witness ==
    /\ mode = "rec" /\ pc = "ret" /\ depth = 2 /\ merges = 1
    /\ Len(merged_at) = 2 /\ json # data

---------------------------------------------------------------------------
(* Claims about merge_json (SpecMerge) *)

\* the deep merge, key by key
RECURSIVE RefMerge(_, _)
RefMerge(into, from) ==
    IF IsObj(into) /\ IsObj(from)
    THEN Obj([k \in DOMAIN into.m \cup DOMAIN from.m |->
                IF k \notin DOMAIN from.m THEN into.m[k]
                ELSE RefMerge(IF k \in DOMAIN into.m THEN into.m[k] ELSE Null,
                              from.m[k])])
    ELSE from

\* C7: merge_json gives the deep merge: for two objects, the keys of both,
\* a key only in `into` unchanged and a key of `from` holding the merge of
\* the two entries (null for a missing one); in every other case `from`.
C7_MergeIsDeepMerge ==
    (mode = "merge" /\ pc = "merged") => json = RefMerge(data, value0)

\* two objects that share a key holding objects: neither side is the result
C7_Witness ==
    /\ mode = "merge" /\ pc = "merged"
    /\ IsObj(data) /\ IsObj(value0)
    /\ \E k \in DOMAIN data.m \cap DOMAIN value0.m :
          /\ IsObj(data.m[k]) /\ IsObj(value0.m[k])
          /\ json.m[k] # data.m[k] /\ json.m[k] # value0.m[k]

====
